---- MODULE Spec2Model ----
(***************************************************************************)
(* Model of mysqld_exporter.go: the Exporter (a prometheus Collector) and  *)
(* its scrape / setMetrics pipeline.  main registers the exporter, which   *)
(* calls Describe, and then serves.  Every Collect invocation starts a     *)
(* scrape goroutine that talks to the database and streams rows over an    *)
(* unbuffered channel to setMetrics, which Collect runs under e.mutex.     *)
(*                                                                         *)
(* Strings are TLA+ strings; a float64 is the exact decimal m / 10^e.      *)
(* The database (database/sql) and the metric objects (client_golang) are  *)
(* libraries outside the repository: a database call returns one of its    *)
(* possible results nondeterministically, Gauge.Set / Counter.Inc are      *)
(* atomic stores, and sending a metric on ch is modelled as reading its    *)
(* value at the moment of the send.                                        *)
(***************************************************************************)
EXTENDS Integers, Sequences, FiniteSets, TLC

\* Number of Collect invocations the exposer makes (each may overlap the others).
NumCollects == 2

Collects == 1..NumCollects

-----------------------------------------------------------------------------
(* Strings *)

Char(s, i) == SubSeq(s, i, i)

Digits == "0123456789"
Upper  == "ABCDEFGHIJKLMNOPQRSTUVWXYZ"
Lower  == "abcdefghijklmnopqrstuvwxyz"

\* Position of the one-character string ch in the string s, 0 when absent.
IndexOf(ch, s) ==
    IF \E i \in 1..Len(s) : Char(s, i) = ch
    THEN CHOOSE i \in 1..Len(s) : Char(s, i) = ch
    ELSE 0

IsDigit(ch) == IndexOf(ch, Digits) > 0

DigitVal(ch) == IndexOf(ch, Digits) - 1

AllDigits(s) == \A i \in 1..Len(s) : IsDigit(Char(s, i))

LowerChar(ch) ==
    IF IndexOf(ch, Upper) > 0 THEN Char(Lower, IndexOf(ch, Upper)) ELSE ch

\* strings.ToLower, from the i-th character on.
RECURSIVE ToLowerFrom(_, _)
ToLowerFrom(s, i) ==
    IF i > Len(s) THEN "" ELSE LowerChar(Char(s, i)) \o ToLowerFrom(s, i + 1)

ToLower(s) == ToLowerFrom(s, 1)

HasPrefix(s, p) == Len(s) >= Len(p) /\ SubSeq(s, 1, Len(p)) = p

\* A faulty FindStringSubmatch: the label is the whole match (index 0), not
\* the parenthesised rest.
FindStringSubmatchWhole(prefix, name) ==
    IF HasPrefix(name, prefix) THEN <<name, name>> ELSE <<>>

\* regexp `^<prefix>(.*)$` applied with FindStringSubmatch: the submatch
\* list <<whole, rest>> when the name starts with the prefix, <<>> otherwise.
FindStringSubmatch(prefix, name) ==
    IF HasPrefix(name, prefix)
    THEN <<name, SubSeq(name, Len(prefix) + 1, Len(name))>>
    ELSE <<>>

-----------------------------------------------------------------------------
(* Numbers *)

\* The float64 m / 10^e, kept normal: e = 0 or m is no multiple of 10.
RECURSIVE Normal(_, _)
Normal(m, e) ==
    IF e > 0 /\ m % 10 = 0 THEN Normal(m \div 10, e - 1) ELSE [m |-> m, e |-> e]

Num(n) == [m |-> n, e |-> 0]

\* The number the first n characters of the digit string s spell.
RECURSIVE DigitsValUpTo(_, _)
DigitsValUpTo(s, n) ==
    IF n = 0 THEN 0 ELSE DigitsValUpTo(s, n - 1) * 10 + DigitVal(Char(s, n))

DigitsVal(s) == DigitsValUpTo(s, Len(s))

\* strconv.ParseFloat(s, 64) on strings of letters, digits, '.', '-', '+', '_':
\* an optional sign, then digits with an optional '.', at least one digit.
\* (No string of the model spells an exponent, a hex float, inf or nan.)
ParseUnsigned(s) ==
    LET dot == IndexOf(".", s)
        ip  == IF dot = 0 THEN s ELSE SubSeq(s, 1, dot - 1)
        fp  == IF dot = 0 THEN "" ELSE SubSeq(s, dot + 1, Len(s))
    IN  IF AllDigits(ip) /\ AllDigits(fp) /\ Len(ip) + Len(fp) > 0
        THEN [ok |-> TRUE, value |-> Normal(DigitsVal(ip \o fp), Len(fp))]
        ELSE [ok |-> FALSE, value |-> Num(0)]

ParseFloat(s) ==
    IF Len(s) > 0 /\ Char(s, 1) \in {"+", "-"}
    THEN LET r == ParseUnsigned(SubSeq(s, 2, Len(s)))
         IN  IF r.ok /\ Char(s, 1) = "-"
             THEN [ok |-> TRUE, value |-> [m |-> 0 - r.value.m, e |-> r.value.e]]
             ELSE r
    ELSE ParseUnsigned(s)

-----------------------------------------------------------------------------
(* parseStatus *)

\* regexp `\.([0-9]+$)` applied with Find: the leftmost match, which can only
\* start at the last '.', since everything after the matched dot is a digit.
LastDot(s) ==
    IF \E i \in 1..Len(s) : Char(s, i) = "."
    THEN CHOOSE i \in 1..Len(s) :
            /\ Char(s, i) = "."
            /\ \A j \in (i + 1)..Len(s) : Char(s, j) # "."
    ELSE 0

logRexpFind(data) ==
    LET d == LastDot(data)
    IN  IF d > 0 /\ d < Len(data) /\ AllDigits(SubSeq(data, d + 1, Len(data)))
        THEN SubSeq(data, d, Len(data))
        ELSE ""

\* A faulty parseStatus: a nil cell counts as 0.
parseStatusNilZero(data) ==
    LET logNum == logRexpFind(data)
    IN  CASE data = "Yes" -> "1"
          [] data = "No" -> "0"
          [] data \notin {"Yes", "No"} /\ Len(logNum) > 1 -> SubSeq(logNum, 2, Len(logNum))
          [] OTHER -> IF data = "" THEN "0" ELSE data

parseStatus(data) ==
    LET logNum == logRexpFind(data)
    IN  CASE data = "Yes" -> "1"
          [] data = "No" -> "0"
          [] data \notin {"Yes", "No"} /\ Len(logNum) > 1 -> SubSeq(logNum, 2, Len(logNum))
          [] OTHER -> data

-----------------------------------------------------------------------------
(* The database: what each call of one scrape may return *)

\* Result sets of SHOW GLOBAL STATUS: rows <<Variable_name, Value>>.
GlobalResults ==
    { <<>>,
      << <<"Com_select", "10">>, <<"Threads_connected", "5">>,
         <<"Innodb_rows_read", "42">> >>,
      << <<"THREADS_CONNECTED", "7">>, <<"Ssl_cipher", "">>,
         <<"Com_select", "3">> >>,
      << <<"Com_", "1.5">>, <<"Connection_errors_accept", "0">>,
         <<"Performance_schema_digest_lost", "2">>, <<"Innodb_rows", "8">>,
         <<"COM_", "4">> >> }

\* Results of SHOW SLAVE STATUS: the column list and zero or one row.
SlaveResults ==
    { [cols |-> <<>>, rows |-> <<>>],
      [cols |-> <<"Slave_IO_Running", "Master_Log_File">>, rows |-> <<>>],
      [cols |-> <<"Slave_IO_Running", "Master_Log_File">>,
       rows |-> << <<"Yes", "bin.000123">> >>],
      [cols |-> <<"Slave_SQL_Running", "Exec_Master_Log_Pos">>,
       rows |-> << <<"No", "1234.567">> >>] }

Range(f) == {f[i] : i \in DOMAIN f}

\* Every name, value and cell the database returns, and the conversions of
\* each, tabulated once.
StatusNames ==
    UNION {{row[1] : row \in Range(g)} : g \in GlobalResults}
        \cup UNION {Range(s.cols) : s \in SlaveResults}

\* slaveData is a []sql.RawBytes (line 179): each cell refers to memory of the
\* driver, which database/sql keeps valid only until the next call of Next,
\* Scan or Close.  The loop at line 190 calls Next once more after the last
\* Scan, and line 207 reads the cells after that: a cell then holds the same
\* number of bytes, either still those of the row or whatever the driver has
\* put into its buffer since (here: as many '?').
RECURSIVE OverwrittenUpTo(_)
OverwrittenUpTo(n) == IF n = 0 THEN "" ELSE "?" \o OverwrittenUpTo(n - 1)

Overwritten(cell) == OverwrittenUpTo(Len(cell))

RowCells == UNION {UNION {Range(row) : row \in Range(s.rows)} : s \in SlaveResults}

SlaveCells == {""} \cup RowCells \cup {Overwritten(cell) : cell \in RowCells}

StatusValues ==
    UNION {{row[2] : row \in Range(g)} : g \in GlobalResults}
        \cup {parseStatus(cell) : cell \in SlaveCells}

lowerOf == [n \in StatusNames |-> ToLower(n)]

floatOf == [v \in StatusValues |-> ParseFloat(v)]

statusOf == [cell \in SlaveCells |-> parseStatus(cell)]

-----------------------------------------------------------------------------
(* State *)

VARIABLES
    metrics,            \* e.metrics: name -> [id: handle identity, val: value]
    commands,           \* e.commands: label -> value
    connectionErrors,   \* e.connectionErrors: label -> value
    innodbRows,         \* e.innodbRows: label -> value
    performanceSchema,  \* e.performanceSchema: label -> value
    created,            \* number of handles prometheus.NewUntyped has made
    duration,           \* e.duration: 0, or c when it holds scrape c's elapsed time
    error,              \* e.error
    totalScrapes,       \* e.totalScrapes
    mutex,              \* e.mutex: 0 when free, c when Collect c holds it
    dpc,                \* where the Describe call of the registration is
    cpc,                \* where each Collect invocation is
    spc,                \* where each scrape goroutine is
    closed,             \* whether the channel scrapes of invocation c is closed
    res,                \* the row a scrape is sending (res, lines 152 and 204)
    rows,               \* rows left in the result set a scrape iterates
    slaveCols,          \* slaveCols of a scrape
    slaveData,          \* slaveData of a scrape
    idx,                \* i of the loop over slaveCols
    db,                 \* a scrape's connection: "none", "open", "closed"
    rsOpen,             \* the result sets a scrape has open (1: global, 2: slave)
    outcome,            \* history: how each scrape ended
    sent,               \* history: the rows the scrape of a running Collect has sent
    scanned,            \* history: the replication-status row that scrape
                        \* decoded, <<column, value>> for every column
    emitted,            \* history: what a running Collect has sent on ch
    serial              \* history: the rows of the completed applies, each
                        \* sequence applied whole, in the order they completed

registryVars == <<metrics, commands, connectionErrors, innodbRows,
                  performanceSchema, created>>
outcomeVars  == <<duration, error>>
scrapeVars   == <<res, rows, slaveCols, slaveData, idx, db, rsOpen>>
vars == <<registryVars, outcomeVars, totalScrapes, mutex, dpc, cpc, spc, closed,
          scrapeVars, outcome, sent, scanned, emitted, serial>>

EmptyMap == [n \in {} |-> Num(0)]

Put(f, k, v) == [x \in (DOMAIN f) \cup {k} |-> IF x = k THEN v ELSE f[x]]

\* The registry as one value.
Registry ==
    [metrics |-> metrics, commands |-> commands,
     connectionErrors |-> connectionErrors, innodbRows |-> innodbRows,
     performanceSchema |-> performanceSchema, created |-> created]

NewMySQLExporter ==
    [metrics |-> EmptyMap, commands |-> EmptyMap, connectionErrors |-> EmptyMap,
     innodbRows |-> EmptyMap, performanceSchema |-> EmptyMap, created |-> 0]

SetRegistry(r) ==
    /\ metrics' = r.metrics
    /\ commands' = r.commands
    /\ connectionErrors' = r.connectionErrors
    /\ innodbRows' = r.innodbRows
    /\ performanceSchema' = r.performanceSchema
    /\ created' = r.created

Init ==
    /\ metrics = NewMySQLExporter.metrics
    /\ commands = NewMySQLExporter.commands
    /\ connectionErrors = NewMySQLExporter.connectionErrors
    /\ innodbRows = NewMySQLExporter.innodbRows
    /\ performanceSchema = NewMySQLExporter.performanceSchema
    /\ created = NewMySQLExporter.created
    /\ duration = 0
    /\ error = 0
    /\ totalScrapes = 0
    /\ mutex = 0
    /\ dpc = "none"
    /\ cpc = [c \in Collects |-> "idle"]
    /\ spc = [c \in Collects |-> "none"]
    /\ closed = [c \in Collects |-> FALSE]
    /\ res = [c \in Collects |-> <<>>]
    /\ rows = [c \in Collects |-> <<>>]
    /\ slaveCols = [c \in Collects |-> <<>>]
    /\ slaveData = [c \in Collects |-> <<>>]
    /\ idx = [c \in Collects |-> 0]
    /\ db = [c \in Collects |-> "none"]
    /\ rsOpen = [c \in Collects |-> {}]
    /\ outcome = [c \in Collects |-> "none"]
    /\ sent = [c \in Collects |-> <<>>]
    /\ scanned = [c \in Collects |-> <<>>]
    /\ emitted = [c \in Collects |-> <<>>]
    /\ serial = NewMySQLExporter

-----------------------------------------------------------------------------
(* setMetrics *)

\* A faulty setGenericMetric: a new handle on every observation, also of a
\* known name.
setGenericMetricAlwaysNew(r, name, value) ==
    [r EXCEPT !.metrics = Put(@, name, [id |-> r.created + 1, val |-> value]),
              !.created = @ + 1]

\* A faulty setGenericMetric: storing a handle drops those of the other names.
setGenericMetricPruning(r, name, value) ==
    LET have == name \in DOMAIN r.metrics
        id   == IF have THEN r.metrics[name].id ELSE r.created + 1
    IN  [r EXCEPT !.metrics = Put(EmptyMap, name, [id |-> id, val |-> value]),
                  !.created = IF have THEN @ ELSE @ + 1]

\* setGenericMetric: get the handle stored under name, or make and store one,
\* then set its value.
setGenericMetric(r, name, value) ==
    LET have == name \in DOMAIN r.metrics
        m1   == IF have THEN r.metrics
                ELSE Put(r.metrics, name, [id |-> r.created + 1, val |-> Num(0)])
    IN  [r EXCEPT !.metrics = [m1 EXCEPT ![name].val = value],
                  !.created = IF have THEN @ ELSE @ + 1]

\* A faulty setMetricsRow: the continue of line 239 is missing, so a value
\* that failed to parse goes on as the 0 ParseFloat returned with the error.
setMetricsRowNoContinue(r, row) ==
    LET name  == lowerOf[row[1]]
        value == floatOf[row[2]].value
        command           == FindStringSubmatch("com_", name)
        connectionError   == FindStringSubmatch("connection_errors_", name)
        innodbRow         == FindStringSubmatch("innodb_rows_", name)
        performanceSchemaM == FindStringSubmatch("performance_schema_", name)
    IN  IF Len(command) > 0
             THEN [r EXCEPT !.commands = Put(@, command[2], value)]
        ELSE IF Len(connectionError) > 0
             THEN [r EXCEPT !.connectionErrors = Put(@, connectionError[2], value)]
        ELSE IF Len(innodbRow) > 0
             THEN [r EXCEPT !.innodbRows = Put(@, innodbRow[2], value)]
        ELSE IF Len(performanceSchemaM) > 0
             THEN [r EXCEPT !.performanceSchema = Put(@, performanceSchemaM[2], value)]
        ELSE setGenericMetric(r, name, value)

\* The body of the loop of setMetrics for one received row.
setMetricsRow(r, row) ==
    LET name  == lowerOf[row[1]]
        pf    == floatOf[row[2]]
        value == pf.value
        command           == FindStringSubmatch("com_", name)
        connectionError   == FindStringSubmatch("connection_errors_", name)
        innodbRow         == FindStringSubmatch("innodb_rows_", name)
        performanceSchemaM == FindStringSubmatch("performance_schema_", name)
    IN  IF ~pf.ok THEN r
        ELSE IF Len(command) > 0
             THEN [r EXCEPT !.commands = Put(@, command[2], value)]
        ELSE IF Len(connectionError) > 0
             THEN [r EXCEPT !.connectionErrors = Put(@, connectionError[2], value)]
        ELSE IF Len(innodbRow) > 0
             THEN [r EXCEPT !.innodbRows = Put(@, innodbRow[2], value)]
        ELSE IF Len(performanceSchemaM) > 0
             THEN [r EXCEPT !.performanceSchema = Put(@, performanceSchemaM[2], value)]
        ELSE setGenericMetric(r, name, value)

\* setMetrics over a whole sequence of rows, one after another.
RECURSIVE setMetricsUpTo(_, _, _)
setMetricsUpTo(r, rs, n) ==
    IF n = 0 THEN r ELSE setMetricsRow(setMetricsUpTo(r, rs, n - 1), rs[n])

setMetrics(r, rs) == setMetricsUpTo(r, rs, Len(rs))

-----------------------------------------------------------------------------
(* Describe *)

\* Line 299 and lines 84-86: prometheus.MustRegister calls Describe, which
\* starts to iterate e.metrics; it takes no lock.
Describe ==
    /\ dpc = "none"
    /\ dpc' = "range"
    /\ UNCHANGED <<registryVars, outcomeVars, totalScrapes, mutex, cpc, spc,
                   closed, scrapeVars, outcome, sent, scanned, emitted, serial>>

\* Lines 88-95: the iteration is over; the descriptors of the four families
\* and of the three outcome metrics follow, and the registration returns.
DescribeReturn ==
    /\ dpc = "range"
    /\ dpc' = "done"
    /\ UNCHANGED <<registryVars, outcomeVars, totalScrapes, mutex, cpc, spc,
                   closed, scrapeVars, outcome, sent, scanned, emitted, serial>>

-----------------------------------------------------------------------------
(* Collect *)

\* A faulty Collect: the exposer is served before the registration is over.
CollectUnregistered(c) ==
    /\ cpc[c] = "idle"
    /\ \A d \in Collects : (d < c) => cpc[d] # "idle"
    /\ cpc' = [cpc EXCEPT ![c] = "lock"]
    /\ spc' = [spc EXCEPT ![c] = "start"]
    /\ UNCHANGED <<dpc, registryVars, outcomeVars, totalScrapes, mutex, closed,
                   scrapeVars, outcome, sent, scanned, emitted, serial>>

\* Lines 99-101: make the channel and start the scrape goroutine.  The
\* exposer calls Collect for a request to the HTTP server, which main starts
\* (line 310) after the registration (line 299).  The invocations are
\* numbered in the order in which Collect is called.
Collect(c) ==
    /\ dpc = "done"
    /\ cpc[c] = "idle"
    /\ \A d \in Collects : (d < c) => cpc[d] # "idle"
    /\ cpc' = [cpc EXCEPT ![c] = "lock"]
    /\ spc' = [spc EXCEPT ![c] = "start"]
    /\ UNCHANGED <<dpc, registryVars, outcomeVars, totalScrapes, mutex, closed,
                   scrapeVars, outcome, sent, scanned, emitted, serial>>

\* A faulty Lock: a shared lock (RLock), which does not wait for another holder.
LockShared(c) ==
    /\ cpc[c] = "lock"
    /\ mutex' = c
    /\ cpc' = [cpc EXCEPT ![c] = "setMetrics"]
    /\ UNCHANGED <<dpc, registryVars, outcomeVars, totalScrapes, spc, closed,
                   scrapeVars, outcome, sent, scanned, emitted, serial>>

\* A faulty Lock: setMetrics is entered without the lock being taken.
LockSkipped(c) ==
    /\ cpc[c] = "lock"
    /\ cpc' = [cpc EXCEPT ![c] = "setMetrics"]
    /\ UNCHANGED <<dpc, registryVars, outcomeVars, totalScrapes, mutex, spc, closed,
                   scrapeVars, outcome, sent, scanned, emitted, serial>>

\* Line 103: e.mutex.Lock().
Lock(c) ==
    /\ cpc[c] = "lock"
    /\ mutex = 0
    /\ mutex' = c
    /\ cpc' = [cpc EXCEPT ![c] = "setMetrics"]
    /\ UNCHANGED <<dpc, registryVars, outcomeVars, totalScrapes, spc, closed,
                   scrapeVars, outcome, sent, scanned, emitted, serial>>

\* Where a scrape goes on after its send at line 156 or 209 was received.
AfterSend(c) ==
    IF spc[c] = "send1"
    THEN /\ spc' = [spc EXCEPT ![c] = "next1"]
         /\ idx' = idx
    ELSE /\ spc' = [spc EXCEPT ![c] = "cols"]
         /\ idx' = [idx EXCEPT ![c] = @ + 1]

\* Lines 234-258 with the send at line 156 or 209: the channel is unbuffered,
\* so setMetrics receives a row in the step in which the scrape sends it.
Receive(c) ==
    /\ cpc[c] = "setMetrics"
    /\ spc[c] \in {"send1", "send2"}
    /\ SetRegistry(setMetricsRow(Registry, res[c]))
    /\ sent' = [sent EXCEPT ![c] = Append(@, res[c])]
    /\ AfterSend(c)
    /\ UNCHANGED <<dpc, outcomeVars, totalScrapes, mutex, cpc, closed, res, rows,
                   slaveCols, slaveData, db, rsOpen, outcome, scanned, emitted,
                   serial>>

\* A faulty RangeEnd: the loop does not wait for the channel to be closed.
RangeEndEarly(c) ==
    /\ cpc[c] = "setMetrics"
    /\ cpc' = [cpc EXCEPT ![c] = "emitDuration"]
    /\ serial' = setMetrics(serial, sent[c])
    /\ UNCHANGED <<dpc, registryVars, outcomeVars, totalScrapes, mutex, spc, closed,
                   scrapeVars, outcome, sent, scanned, emitted>>

\* A faulty RangeEnd: the lock is released when setMetrics returns, before
\* the emission.
RangeEndUnlock(c) ==
    /\ cpc[c] = "setMetrics"
    /\ closed[c]
    /\ cpc' = [cpc EXCEPT ![c] = "emitDuration"]
    /\ mutex' = 0
    /\ serial' = setMetrics(serial, sent[c])
    /\ UNCHANGED <<dpc, registryVars, outcomeVars, totalScrapes, spc, closed,
                   scrapeVars, outcome, sent, scanned, emitted>>

\* Line 234: the range loop ends once the channel is closed.
RangeEnd(c) ==
    /\ cpc[c] = "setMetrics"
    /\ closed[c]
    /\ cpc' = [cpc EXCEPT ![c] = "emitDuration"]
    /\ serial' = setMetrics(serial, sent[c])
    /\ UNCHANGED <<dpc, registryVars, outcomeVars, totalScrapes, mutex, spc, closed,
                   scrapeVars, outcome, sent, scanned, emitted>>

Emit(c, at, field, value, next) ==
    /\ cpc[c] = at
    /\ emitted' = [emitted EXCEPT ![c] = Put(@, field, value)]
    /\ cpc' = [cpc EXCEPT ![c] = next]
    /\ UNCHANGED <<dpc, registryVars, outcomeVars, totalScrapes, mutex, spc, closed,
                   scrapeVars, outcome, sent, scanned, serial>>

\* Line 106: ch <- e.duration.
EmitDuration(c) == Emit(c, "emitDuration", "duration", duration, "emitTotalScrapes")

\* Line 107: ch <- e.totalScrapes.
EmitTotalScrapes(c) == Emit(c, "emitTotalScrapes", "totalScrapes", totalScrapes, "emitError")

\* Line 108: ch <- e.error.
EmitError(c) == Emit(c, "emitError", "error", error, "collectMetrics")

\* Lines 109-113: collectMetrics and the four families' Collect.
EmitRegistry(c) == Emit(c, "collectMetrics", "registry", Registry, "unlock")

\* Line 104: the deferred e.mutex.Unlock(), and Collect returns.
Unlock(c) ==
    /\ cpc[c] = "unlock"
    /\ mutex' = 0
    /\ cpc' = [cpc EXCEPT ![c] = "done"]
    /\ sent' = [sent EXCEPT ![c] = <<>>]
    /\ scanned' = [scanned EXCEPT ![c] = <<>>]
    /\ emitted' = [emitted EXCEPT ![c] = <<>>]
    /\ UNCHANGED <<dpc, registryVars, outcomeVars, totalScrapes, spc, closed,
                   scrapeVars, outcome, serial>>

-----------------------------------------------------------------------------
(* scrape *)

\* A step of scrape c from at to next that touches only its own variables.
Goto(c, at, next) ==
    /\ spc[c] = at
    /\ spc' = [spc EXCEPT ![c] = next]

\* A database call failed: remember which, and take the error return.
Fail(c, at, what, next) ==
    /\ Goto(c, at, next)
    /\ outcome' = [outcome EXCEPT ![c] = what]

\* A faulty ScrapeStart: the scrape is not counted.
ScrapeStartNoInc(c) ==
    /\ Goto(c, "start", "open")
    /\ UNCHANGED <<dpc, registryVars, outcomeVars, totalScrapes, mutex, cpc, closed,
                   scrapeVars, outcome, sent, scanned, emitted, serial>>

\* Lines 119-121: take the start time, e.totalScrapes.Inc().
ScrapeStart(c) ==
    /\ Goto(c, "start", "open")
    /\ totalScrapes' = totalScrapes + 1
    /\ UNCHANGED <<dpc, registryVars, outcomeVars, mutex, cpc, closed, scrapeVars,
                   outcome, sent, scanned, emitted, serial>>

\* Lines 123-130: sql.Open fails, or succeeds and db.Close is deferred.
ScrapeOpen(c) ==
    /\ \/ /\ Fail(c, "open", "openErr", "setError")
          /\ db' = db
       \/ /\ Goto(c, "open", "query1")
          /\ db' = [db EXCEPT ![c] = "open"]
          /\ outcome' = outcome
    /\ UNCHANGED <<dpc, registryVars, outcomeVars, totalScrapes, mutex, cpc, closed,
                   res, rows, slaveCols, slaveData, idx, rsOpen, sent, scanned, emitted, serial>>

\* Lines 133-140: SHOW GLOBAL STATUS fails, or returns a result set.
ScrapeQuery1(c) ==
    /\ \/ /\ Fail(c, "query1", "query1Err", "setError")
          /\ UNCHANGED <<rows, rsOpen>>
       \/ \E result \in GlobalResults :
            /\ Goto(c, "query1", "next1")
            /\ rows' = [rows EXCEPT ![c] = result]
            /\ rsOpen' = [rsOpen EXCEPT ![c] = @ \cup {1}]
            /\ outcome' = outcome
    /\ UNCHANGED <<dpc, registryVars, outcomeVars, totalScrapes, mutex, cpc, closed,
                   res, slaveCols, slaveData, idx, db, sent, scanned, emitted, serial>>

\* Lines 144-155: rows.Next(); Scan fails (plain return, line 149) or fills
\* res with the row, which line 156 then offers on the channel.
ScrapeNext1(c) ==
    /\ \/ /\ rows[c] = <<>>
          /\ Goto(c, "next1", "query2")
          /\ UNCHANGED <<res, rows, outcome>>
       \/ /\ rows[c] # <<>>
          /\ Fail(c, "next1", "scan1Err", "return")
          /\ UNCHANGED <<res, rows>>
       \/ /\ rows[c] # <<>>
          /\ Goto(c, "next1", "send1")
          /\ res' = [res EXCEPT ![c] = Head(rows[c])]
          /\ rows' = [rows EXCEPT ![c] = Tail(@)]
          /\ outcome' = outcome
    /\ UNCHANGED <<dpc, registryVars, outcomeVars, totalScrapes, mutex, cpc, closed,
                   slaveCols, slaveData, idx, db, rsOpen, sent, scanned, emitted, serial>>

\* Lines 160-167: SHOW SLAVE STATUS fails, or returns a result set.
ScrapeQuery2(c) ==
    /\ \/ /\ Fail(c, "query2", "query2Err", "setError")
          /\ UNCHANGED <<rows, slaveCols, rsOpen>>
       \/ \E result \in SlaveResults :
            /\ Goto(c, "query2", "columns")
            /\ rows' = [rows EXCEPT ![c] = result.rows]
            /\ slaveCols' = [slaveCols EXCEPT ![c] = result.cols]
            /\ rsOpen' = [rsOpen EXCEPT ![c] = @ \cup {2}]
            /\ outcome' = outcome
    /\ UNCHANGED <<dpc, registryVars, outcomeVars, totalScrapes, mutex, cpc, closed,
                   res, slaveData, idx, db, sent, scanned, emitted, serial>>

\* Lines 171-188: rows.Columns() fails, or slaveData gets one nil cell a column.
ScrapeColumns(c) ==
    /\ \/ /\ Fail(c, "columns", "columnsErr", "setError")
          /\ slaveData' = slaveData
       \/ /\ Goto(c, "columns", "next2")
          /\ slaveData' = [slaveData EXCEPT
                             ![c] = [i \in 1..Len(slaveCols[c]) |-> ""]]
          /\ outcome' = outcome
    /\ UNCHANGED <<dpc, registryVars, outcomeVars, totalScrapes, mutex, cpc, closed,
                   res, rows, slaveCols, idx, db, rsOpen, sent, scanned, emitted, serial>>

\* Lines 190-200: rows.Next(); Scan fails, or overwrites slaveData with the
\* row.  The call of Next that ends the loop ends the validity of the cells.
ScrapeNext2(c) ==
    /\ \/ /\ rows[c] = <<>>
          /\ Goto(c, "next2", "cols")
          /\ idx' = [idx EXCEPT ![c] = 1]
          /\ \E data \in {slaveData[c],
                          [i \in DOMAIN slaveData[c] |-> Overwritten(slaveData[c][i])]} :
                slaveData' = [slaveData EXCEPT ![c] = data]
          /\ UNCHANGED <<rows, outcome, scanned>>
       \/ /\ rows[c] # <<>>
          /\ Fail(c, "next2", "scan2Err", "setError")
          /\ UNCHANGED <<rows, slaveData, idx, scanned>>
       \/ /\ rows[c] # <<>>
          /\ Goto(c, "next2", "next2")
          /\ slaveData' = [slaveData EXCEPT ![c] = Head(rows[c])]
          /\ scanned' = [scanned EXCEPT ![c] =
                            [i \in DOMAIN slaveCols[c] |->
                                <<slaveCols[c][i], Head(rows[c])[i]>>]]
          /\ rows' = [rows EXCEPT ![c] = Tail(@)]
          /\ UNCHANGED <<idx, outcome>>
    /\ UNCHANGED <<dpc, registryVars, outcomeVars, totalScrapes, mutex, cpc, closed,
                   res, slaveCols, db, rsOpen, sent, emitted, serial>>

\* Lines 202-208: the loop over slaveCols; res is the column and its parsed
\* cell, which line 209 then offers on the channel.
ScrapeCols(c) ==
    /\ \/ /\ idx[c] > Len(slaveCols[c])
          /\ Goto(c, "cols", "setOk")
          /\ outcome' = [outcome EXCEPT ![c] = "ok"]
          /\ res' = res
       \/ /\ idx[c] <= Len(slaveCols[c])
          /\ Goto(c, "cols", "send2")
          /\ res' = [res EXCEPT ![c] = <<slaveCols[c][idx[c]],
                                         statusOf[slaveData[c][idx[c]]]>>]
          /\ outcome' = outcome
    /\ UNCHANGED <<dpc, registryVars, outcomeVars, totalScrapes, mutex, cpc, closed,
                   rows, slaveCols, slaveData, idx, db, rsOpen, sent, scanned, emitted, serial>>

\* Lines 126, 136, 163, 174, 195: e.error.Set(1).
ScrapeSetError(c) ==
    /\ Goto(c, "setError", "setDuration")
    /\ error' = 1
    /\ UNCHANGED <<dpc, registryVars, duration, totalScrapes, mutex, cpc, closed,
                   scrapeVars, outcome, sent, scanned, emitted, serial>>

\* A faulty ScrapeSetOk: a successful scrape leaves the flag as it was.
ScrapeSetOkMissing(c) ==
    /\ Goto(c, "setOk", "setDuration")
    /\ UNCHANGED <<dpc, registryVars, outcomeVars, totalScrapes, mutex, cpc, closed,
                   scrapeVars, outcome, sent, scanned, emitted, serial>>

\* Line 213: e.error.Set(0).
ScrapeSetOk(c) ==
    /\ Goto(c, "setOk", "setDuration")
    /\ error' = 0
    /\ UNCHANGED <<dpc, registryVars, duration, totalScrapes, mutex, cpc, closed,
                   scrapeVars, outcome, sent, scanned, emitted, serial>>

\* Lines 127, 137, 164, 175, 196, 214: e.duration.Set(elapsed time).
ScrapeSetDuration(c) ==
    /\ Goto(c, "setDuration", "return")
    /\ duration' = c
    /\ UNCHANGED <<dpc, registryVars, error, totalScrapes, mutex, cpc, closed,
                   scrapeVars, outcome, sent, scanned, emitted, serial>>

\* A faulty ScrapeReturn: close(scrapes) at the end of the function body
\* instead of deferred, so an error return leaves the channel open.
ScrapeReturnNoClose(c) ==
    /\ Goto(c, "return", "done")
    /\ rsOpen' = [rsOpen EXCEPT ![c] = {}]
    /\ db' = [db EXCEPT ![c] = IF @ = "open" THEN "closed" ELSE @]
    /\ closed' = [closed EXCEPT ![c] = (outcome[c] = "ok")]
    /\ res' = [res EXCEPT ![c] = <<>>]
    /\ rows' = [rows EXCEPT ![c] = <<>>]
    /\ slaveCols' = [slaveCols EXCEPT ![c] = <<>>]
    /\ slaveData' = [slaveData EXCEPT ![c] = <<>>]
    /\ idx' = [idx EXCEPT ![c] = 0]
    /\ UNCHANGED <<dpc, registryVars, outcomeVars, totalScrapes, mutex, cpc, outcome,
                   sent, scanned, emitted, serial>>

\* A faulty ScrapeReturn: db.Close() is not deferred, so the connection
\* and its result sets stay open.
ScrapeReturnLeak(c) ==
    /\ Goto(c, "return", "done")
    /\ closed' = [closed EXCEPT ![c] = TRUE]
    /\ res' = [res EXCEPT ![c] = <<>>]
    /\ rows' = [rows EXCEPT ![c] = <<>>]
    /\ slaveCols' = [slaveCols EXCEPT ![c] = <<>>]
    /\ slaveData' = [slaveData EXCEPT ![c] = <<>>]
    /\ idx' = [idx EXCEPT ![c] = 0]
    /\ UNCHANGED <<dpc, registryVars, outcomeVars, totalScrapes, mutex, cpc, outcome,
                   db, rsOpen, sent, scanned, emitted, serial>>

\* The deferred calls, last first: rows.Close() (167, 140), db.Close() (130),
\* close(scrapes) (117); the goroutine ends and its locals with it.
ScrapeReturn(c) ==
    /\ Goto(c, "return", "done")
    /\ rsOpen' = [rsOpen EXCEPT ![c] = {}]
    /\ db' = [db EXCEPT ![c] = IF @ = "open" THEN "closed" ELSE @]
    /\ closed' = [closed EXCEPT ![c] = TRUE]
    /\ res' = [res EXCEPT ![c] = <<>>]
    /\ rows' = [rows EXCEPT ![c] = <<>>]
    /\ slaveCols' = [slaveCols EXCEPT ![c] = <<>>]
    /\ slaveData' = [slaveData EXCEPT ![c] = <<>>]
    /\ idx' = [idx EXCEPT ![c] = 0]
    /\ UNCHANGED <<dpc, registryVars, outcomeVars, totalScrapes, mutex, cpc, outcome,
                   sent, scanned, emitted, serial>>

-----------------------------------------------------------------------------
(* Specifications *)

CollectStep(c) ==
    \/ Lock(c)
    \/ Receive(c)
    \/ RangeEnd(c)
    \/ EmitDuration(c)
    \/ EmitTotalScrapes(c)
    \/ EmitError(c)
    \/ EmitRegistry(c)
    \/ Unlock(c)

ScrapeStep(c) ==
    \/ ScrapeStart(c)
    \/ ScrapeOpen(c)
    \/ ScrapeQuery1(c)
    \/ ScrapeNext1(c)
    \/ ScrapeQuery2(c)
    \/ ScrapeColumns(c)
    \/ ScrapeNext2(c)
    \/ ScrapeCols(c)
    \/ ScrapeSetError(c)
    \/ ScrapeSetOk(c)
    \/ ScrapeSetDuration(c)
    \/ ScrapeReturn(c)

Next ==
    \/ Describe
    \/ DescribeReturn
    \/ \E c \in Collects : Collect(c) \/ CollectStep(c) \/ ScrapeStep(c)

\* Any number of Collect invocations overlap.
Spec == Init /\ [][Next]_vars

\* Collect invocations run one at a time: one starts only when no other runs.
CollectAlone(c) ==
    /\ \A d \in Collects \ {c} : cpc[d] \in {"idle", "done"}
    /\ Collect(c)

SeqNext ==
    \/ Describe
    \/ DescribeReturn
    \/ \E c \in Collects : CollectAlone(c) \/ CollectStep(c) \/ ScrapeStep(c)

SeqSpec == Init /\ [][SeqNext]_vars

\* Every started goroutine keeps being scheduled (the Go scheduler), every
\* database call returns, and a free mutex is handed to a waiter; the exposer
\* is not obliged to call Collect.
FairSpec ==
    /\ Spec
    /\ \A c \in Collects : WF_vars(CollectStep(c)) /\ WF_vars(ScrapeStep(c))

-----------------------------------------------------------------------------
(* Properties *)

\* Collect c is inside the section guarded by e.mutex (lines 105-113).
InSection(c) ==
    cpc[c] \in {"setMetrics", "emitDuration", "emitTotalScrapes", "emitError",
                "collectMetrics", "unlock"}

\* The scrape is talking to the database (lines 123-200).
Querying(c) ==
    spc[c] \in {"open", "query1", "next1", "query2", "columns", "next2"}

Quiescent == \A c \in Collects : cpc[c] \in {"idle", "done"}

FailedCall == {"openErr", "query1Err", "query2Err", "columnsErr"}

\* C1: whenever no Collect invocation is running, the registry (the generic
\* map and the four labelled families) equals the row sequences of the
\* invocations that ran, each applied whole, one after another, in the order
\* in which the invocations finished applying: a serial order.
C1_SerialOrder == Quiescent => Registry = serial

\* Both invocations ran, and both wrote threads_connected and select: the
\* second result set was applied after the first.
C1_Witness ==
    /\ \A c \in Collects : cpc[c] = "done"
    /\ "read" \in DOMAIN innodbRows
    /\ "select" \in DOMAIN commands /\ commands["select"] = Num(3)
    /\ "threads_connected" \in DOMAIN metrics
    /\ metrics["threads_connected"].val = Num(7)

\* C2: at most one Collect invocation is inside the locked section (applying
\* rows or emitting), and the registry an invocation emits is the registry
\* after its own complete apply on top of the complete applies before it.
C2_SerializedApplyAndEmit ==
    /\ \A c, d \in Collects : (c # d) => ~(InSection(c) /\ InSection(d))
    /\ \A c \in Collects :
          ("registry" \in DOMAIN emitted[c]) => emitted[c].registry = serial

\* An invocation has emitted the registry while another one, whose scrape
\* already offers a row, waits for the lock.
C2_Witness ==
    \E c, d \in Collects :
        /\ "registry" \in DOMAIN emitted[c]
        /\ sent[c] # <<>>
        /\ cpc[d] = "lock" /\ spc[d] = "send1"

\* C3: every Collect invocation that was started eventually returns with
\* the lock released, its scrape ended and its channel closed.
C3_CollectReturns ==
    \A c \in Collects :
        (cpc[c] = "lock") ~>
            (cpc[c] = "done" /\ spc[c] = "done" /\ closed[c] /\ mutex # c)

\* All invocations returned, one after a row-decoding error and another
\* after a failed connection open.
C3_Witness ==
    /\ \A c \in Collects : cpc[c] = "done" /\ closed[c]
    /\ mutex = 0
    /\ \E c, d \in Collects : outcome[c] = "scan1Err" /\ outcome[d] = "openErr"

\* C4 (invocations one at a time): when Collect is about to return, the
\* error flag is 1 if the connection open, the first query, the second
\* query or the column introspection of its scrape failed, and 0 if the
\* scrape succeeded, whatever the flag was before.
C4_ErrorFlagOfCycle ==
    \A c \in Collects :
        (cpc[c] = "unlock") =>
            /\ (outcome[c] \in FailedCall) => error = 1
            /\ (outcome[c] = "ok") => error = 0

\* A successful scrape after a failed one: the flag is back to 0.
C4_Witness ==
    \E c, d \in Collects :
        /\ cpc[d] = "done" /\ outcome[d] \in FailedCall
        /\ cpc[c] = "unlock" /\ outcome[c] = "ok" /\ error = 0

\* C5 (invocations one at a time): after a row-decoding error in either
\* result set the flag is 1 when Collect is about to return, and the rows
\* sent before the error have been applied.
C5_ScanErrorSetsFlag ==
    \A c \in Collects :
        (cpc[c] = "unlock" /\ outcome[c] \in {"scan1Err", "scan2Err"}) =>
            error = 1 /\ Registry = serial

\* C6: the counter equals the number of scrapes that have passed line 121,
\* which every scrape does before it opens the connection; it never decreases.
C6_TotalScrapes ==
    /\ [](totalScrapes = Cardinality({c \in Collects : spc[c] \notin {"none", "start"}}))
    /\ [][totalScrapes' >= totalScrapes]_vars

\* Both scrapes were counted although one of them failed to open its connection.
C6_Witness ==
    /\ totalScrapes = NumCollects
    /\ \E c \in Collects : outcome[c] = "openErr"

\* C7 as claimed: a Collect invocation never holds the lock while its own
\* scrape is still opening the connection or running a query.
C7_NoLockWhileQuerying ==
    \A c \in Collects : (mutex = c) => ~Querying(c)

\* C7 as amended: a Collect invocation holds the lock exactly from line 103
\* until it returns, so during the whole apply and emission (and during
\* whatever its scrape does meanwhile); a scrape itself never takes it.
C7_LockHeldThroughApply ==
    \A c \in Collects : (mutex = c) <=> InSection(c)

\* A Collect holds the lock with a row applied while its scrape runs the
\* second query, and the scrape of a waiting Collect runs its first query.
C7_Witness ==
    \E c, d \in Collects :
        /\ mutex = c /\ sent[c] # <<>> /\ spc[c] = "query2"
        /\ cpc[d] = "lock" /\ spc[d] = "query1"

\* C8: every write of the error flag or the duration happens while the
\* Collect invocation that started the writing scrape holds the lock.
C8_OutcomeWrittenUnderLock ==
    [][\A c \in Collects :
          (spc[c] \in {"setError", "setOk", "setDuration"} /\ spc'[c] # spc[c])
              => mutex = c]_vars

\* C9: a step never changes the handle stored under a name, and makes
\* exactly one new handle for every name it adds to the generic map.
C9_HandleCreatedOnce ==
    [][/\ \A n \in DOMAIN metrics :
             n \in DOMAIN metrics' /\ metrics'[n].id = metrics[n].id
       /\ \A n \in (DOMAIN metrics') \ (DOMAIN metrics) : metrics'[n].id > created
       /\ created' = created + Cardinality((DOMAIN metrics') \ (DOMAIN metrics))]_vars

\* threads_connected was observed by two scrapes (first 5, then 7) and is
\* still the first handle made.
C9_Witness ==
    /\ "read" \in DOMAIN innodbRows
    /\ "threads_connected" \in DOMAIN metrics
    /\ metrics["threads_connected"] = [id |-> 1, val |-> Num(7)]

\* The generic name the row res[c] is observed under.
Observes(c, n) ==
    /\ cpc[c] = "setMetrics"
    /\ spc[c] \in {"send1", "send2"}
    /\ lowerOf[res[c][1]] = n

\* C10: no step removes a name from the generic map; a name's value changes
\* only in a step that observes a row of that name; and collectMetrics emits
\* every name of the map with its current value.
C10_NamesOnlyGrow ==
    [][/\ \A n \in DOMAIN metrics :
             /\ n \in DOMAIN metrics'
             /\ (metrics'[n].val # metrics[n].val) => \E c \in Collects : Observes(c, n)
       /\ \A c \in Collects :
             (cpc[c] = "collectMetrics" /\ cpc'[c] = "unlock")
                 => emitted'[c].registry.metrics = metrics]_vars

\* A Collect whose failed scrape sent no row emits master_log_file with the
\* value an earlier scrape observed.
C10_Witness ==
    \E c \in Collects :
        /\ cpc[c] = "unlock"
        /\ outcome[c] \in FailedCall /\ sent[c] = <<>>
        /\ "master_log_file" \in DOMAIN emitted[c].registry.metrics
        /\ emitted[c].registry.metrics["master_log_file"].val = Num(123)

\* The four prefixes of lines 229-232 and the family each selects.
Prefixes == {"com_", "connection_errors_", "innodb_rows_", "performance_schema_"}

FamilyOf ==
    [p \in Prefixes |->
        CASE p = "com_" -> "commands"
          [] p = "connection_errors_" -> "connectionErrors"
          [] p = "innodb_rows_" -> "innodbRows"
          [] p = "performance_schema_" -> "performanceSchema"]

MatchingPrefixes(name) == {p \in Prefixes : HasPrefix(name, p)}

\* The series a lowercased name stands for: a labelled family and the rest
\* of the name as label, or the generic map and the full name.
Series(name) ==
    IF MatchingPrefixes(name) = {}
    THEN [family |-> "metrics", label |-> name]
    ELSE LET p == CHOOSE q \in MatchingPrefixes(name) : TRUE
         IN  [family |-> FamilyOf[p], label |-> SubSeq(name, Len(p) + 1, Len(name))]

\* Whether the registry reg exposes the series s with the value v.
Exposes(reg, s, v) ==
    /\ s.label \in DOMAIN reg[s.family]
    /\ IF s.family = "metrics"
       THEN reg.metrics[s.label].val = v
       ELSE reg[s.family][s.label] = v

\* The i-th row of rs is numeric and no later numeric row has its name.
LastNumeric(rs, i) ==
    /\ floatOf[rs[i][2]].ok
    /\ \A j \in (i + 1)..Len(rs) :
          floatOf[rs[j][2]].ok => lowerOf[rs[j][1]] # lowerOf[rs[i][1]]

\* C11: the registry a successful Collect emits exposes every numeric row
\* its scrape sent (the last one of a name sent twice) at the series its
\* lowercased name stands for, with the row's value; a name starts with at
\* most one of the four prefixes.
C11_RowsClassified ==
    \A c \in Collects :
        ("registry" \in DOMAIN emitted[c] /\ outcome[c] = "ok") =>
            \A i \in 1..Len(sent[c]) :
                /\ Cardinality(MatchingPrefixes(lowerOf[sent[c][i][1]])) <= 1
                /\ LastNumeric(sent[c], i) =>
                      Exposes(emitted[c].registry, Series(lowerOf[sent[c][i][1]]),
                              floatOf[sent[c][i][2]].value)

\* A successful Collect has emitted the empty command label (from COM_),
\* one series in each of two other families, and innodb_rows, which misses
\* the prefix innodb_rows_, as a generic metric.
C11_Witness ==
    \E c \in Collects :
        /\ cpc[c] = "unlock" /\ outcome[c] = "ok"
        /\ Len(sent[c]) >= 5
        /\ Exposes(emitted[c].registry, [family |-> "commands", label |-> ""], Num(4))
        /\ Exposes(emitted[c].registry,
                   [family |-> "connectionErrors", label |-> "accept"], Num(0))
        /\ Exposes(emitted[c].registry,
                   [family |-> "performanceSchema", label |-> "digest_lost"], Num(2))
        /\ Exposes(emitted[c].registry,
                   [family |-> "metrics", label |-> "innodb_rows"], Num(8))
        /\ "" \notin DOMAIN emitted[c].registry.innodbRows

\* The rules of the claim, written out: whether s ends in a dot and digits,
\* and what s is mapped to.
DotBeforeDigits(s) ==
    {d \in 1..(Len(s) - 1) : Char(s, d) = "." /\ AllDigits(SubSeq(s, d + 1, Len(s)))}

ParseRule(s) ==
    IF s = "Yes" THEN "1"
    ELSE IF s = "No" THEN "0"
    ELSE IF DotBeforeDigits(s) # {}
         THEN LET d == CHOOSE x \in DotBeforeDigits(s) : TRUE
              IN  SubSeq(s, d + 1, Len(s))
    ELSE s

\* The value column i of the replication-status row of scrape c holds: what
\* Scan decoded, or nothing when the result set had no row.
ColumnValue(c, i) == IF scanned[c] = <<>> THEN "" ELSE scanned[c][i][2]

\* C12: parseStatus follows the four rules on every cell; every row a scrape
\* sends for a column is the column name with the rule applied to the value
\* the column holds; and the registry a successful Collect emits exposes
\* every column whose value so mapped is numeric, with that number (a column
\* holding Yes with 1).
C12_ColumnsParsed ==
    /\ \A cell \in SlaveCells : statusOf[cell] = ParseRule(cell)
    /\ \A c \in Collects :
          (spc[c] = "send2") =>
              res[c] = <<slaveCols[c][idx[c]], ParseRule(ColumnValue(c, idx[c]))>>
    /\ \A c \in Collects :
          ("registry" \in DOMAIN emitted[c] /\ outcome[c] = "ok") =>
              \A i \in 1..Len(scanned[c]) :
                  floatOf[ParseRule(scanned[c][i][2])].ok =>
                      Exposes(emitted[c].registry, Series(lowerOf[scanned[c][i][1]]),
                              floatOf[ParseRule(scanned[c][i][2])].value)

\* Collect c receives the row res[c] in this step, and its value is not numeric.
ReceivesNonNumeric(c) ==
    /\ cpc[c] = "setMetrics"
    /\ spc[c] \in {"send1", "send2"}
    /\ spc'[c] # spc[c]
    /\ ~floatOf[res[c][2]].ok

\* C13: the step that receives a row with a non-numeric value leaves the
\* generic map, the four families and the handle count as they are, leaves
\* the error flag as it is, and leaves the receiving loop and the scrape
\* going: the scrape is at its next row with the rows it has left.
C13_NonNumericDropped ==
    [][\A c \in Collects :
          ReceivesNonNumeric(c) =>
              /\ UNCHANGED registryVars
              /\ error' = error
              /\ cpc'[c] = "setMetrics"
              /\ spc'[c] = (IF spc[c] = "send1" THEN "next1" ELSE "cols")
              /\ rows'[c] = rows[c] /\ ~closed'[c]]_vars

\* Ssl_cipher came with an empty value between two numeric rows: it is not
\* in the registry and made no handle, the row before it keeps its value,
\* the row after it is applied, and the flag is 0.
C13_Witness ==
    \E c \in Collects :
        /\ cpc[c] = "unlock" /\ outcome[c] = "ok" /\ error = 0
        /\ Len(sent[c]) >= 3
        /\ sent[c][1] = <<"THREADS_CONNECTED", "7">>
        /\ sent[c][2] = <<"Ssl_cipher", "">>
        /\ metrics["threads_connected"] = [id |-> 1, val |-> Num(7)]
        /\ "ssl_cipher" \notin DOMAIN metrics
        /\ commands["select"] = Num(3)
        /\ created = 1

\* The replication-status query of scrape c succeeded and its result set had
\* no row: the loop over the columns runs with nothing decoded.
ZeroRows(c) == spc[c] \in {"cols", "send2", "setOk"} /\ scanned[c] = <<>>

\* C14 (invocations one at a time): while a scrape goes through the columns
\* of a replication status without a row, no step changes the registry,
\* for any column set; and when the Collect of such a scrape is about to
\* return, the error flag is 0.
C14_ZeroRowsContributeNothing ==
    /\ [][(\E c \in Collects : ZeroRows(c)) => UNCHANGED registryVars]_vars
    /\ [](\A c \in Collects :
            (cpc[c] = "unlock" /\ outcome[c] = "ok" /\ scanned[c] = <<>>) => error = 0)

\* A replication status with two columns and no row was sent and received
\* after an earlier invocation had exposed both columns: the two series are
\* as they were and the flag is 0.
C14_Witness ==
    \E c \in Collects :
        /\ cpc[c] = "unlock" /\ outcome[c] = "ok" /\ scanned[c] = <<>>
        /\ sent[c] = << <<"Slave_IO_Running", "">>, <<"Master_Log_File", "">> >>
        /\ "slave_io_running" \in DOMAIN metrics
        /\ metrics["slave_io_running"].val = Num(1)
        /\ metrics["master_log_file"].val = Num(123)
        /\ error = 0

\* C15: once the channel of an invocation is closed, and so whenever the
\* invocation emits or has returned, its scrape has no connection and no
\* result set open; a scrape that has ended has closed the connection on
\* every path but the one on which opening it failed.
C15_ConnectionClosed ==
    \A c \in Collects :
        /\ (closed[c] \/ cpc[c] = "done"
                \/ cpc[c] \in {"emitDuration", "emitTotalScrapes", "emitError",
                               "collectMetrics", "unlock"})
              => (db[c] # "open" /\ rsOpen[c] = {})
        /\ (spc[c] = "done") => (db[c] = "closed" <=> outcome[c] # "openErr")

\* A Collect emits after a scrape that had both result sets open and closed
\* its connection, while the scrape of the next invocation has its own
\* connection and first result set open.
C15_Witness ==
    \E c, d \in Collects :
        /\ cpc[c] = "emitDuration" /\ outcome[c] = "ok" /\ db[c] = "closed"
        /\ db[d] = "open" /\ rsOpen[d] = {1}

\* C16 (invocations one at a time): when the Collect of a scrape that failed
\* after it had sent rows is about to return, the registry it has emitted
\* holds every row sent, it has emitted the three outcome metrics, and the
\* error flag is 1.
C16_RowsBeforeFailureApplied ==
    \A c \in Collects :
        (cpc[c] = "unlock" /\ outcome[c] # "ok" /\ sent[c] # <<>>) =>
            /\ DOMAIN emitted[c] = {"duration", "totalScrapes", "error", "registry"}
            /\ emitted[c].registry = serial
            /\ Registry = serial
            /\ error = 1 /\ emitted[c].error = 1

\* The rows scrape c has offered on its channel so far: those received and
\* the one it is sending.
Offered(c) == IF spc[c] \in {"send1", "send2"} THEN Append(sent[c], res[c]) ELSE sent[c]

\* Collect c is emitting (lines 106-113) or about to return.
Emitting(c) ==
    cpc[c] \in {"emitDuration", "emitTotalScrapes", "emitError", "collectMetrics",
                "unlock"}

\* C17: the rows of the first result set are offered in the order of the
\* result set, none left out; while a Collect receives, the registry is the
\* rows received so far applied one after another, in the order sent, to the
\* registry it found; and it emits only when its scrape has ended, the
\* channel is closed and no row is left being sent.
C17_OrderedAndDrained ==
    \A c \in Collects :
        /\ (spc[c] \in {"next1", "send1"}) => (Offered(c) \o rows[c] \in GlobalResults)
        /\ (mutex = c /\ cpc[c] = "setMetrics") => Registry = setMetrics(serial, sent[c])
        /\ Emitting(c) =>
              /\ spc[c] = "done" /\ closed[c] /\ res[c] = <<>>
              /\ Registry = serial

\* A scrape sent Com_ with 1.5 and, four rows later, COM_ with 4, then the
\* columns of the replication status; its Collect emits with the later value.
C17_Witness ==
    \E c \in Collects :
        /\ cpc[c] = "emitDuration" /\ spc[c] = "done"
        /\ Len(sent[c]) = 7
        /\ sent[c][1] = <<"Com_", "1.5">> /\ sent[c][5] = <<"COM_", "4">>
        /\ commands[""] = Num(4)

\* Collect c is where it reads or writes e.metrics: in setMetrics, which
\* calls setGenericMetric (lines 218-225), or at collectMetrics (line 263).
AccessesMap(c) == cpc[c] \in {"setMetrics", "collectMetrics"}

\* Some thread iterates e.metrics while another is where it inserts into it.
IterationDuringInsert ==
    \/ dpc = "range" /\ \E c \in Collects : cpc[c] = "setMetrics"
    \/ \E c, d \in Collects :
          c # d /\ cpc[c] = "collectMetrics" /\ cpc[d] = "setMetrics"

C19_EmitsOwnErrorFlag ==
    \A c \in Collects :
        ("error" \in DOMAIN emitted[c]) =>
            /\ (outcome[c] \in FailedCall \cup {"scan2Err"}) => emitted[c].error = 1
            /\ (outcome[c] = "ok") => emitted[c].error = 0

====
